---- MODULE Spec2Model ----
(***************************************************************************)
(* A model of qcp/tasks.py: the task classes, the sqlite-backed TaskQueue  *)
(* (put, pop, mark_*, run) and workers that call it concurrently.          *)
(*                                                                         *)
(* The table `tasks` is a sequence of rows; a row's _ROWID_ is its index   *)
(* (sqlite assigns max(rowid)+1 and no statement ever deletes a row).      *)
(* An SQL value of a nullable column is <<>> for NULL and <<n>> for the    *)
(* integer n.  A Python dict (a task's __dict__) is a TLA+ record.         *)
(*                                                                         *)
(* Every SQL statement of a handler is one atomic step of the worker that  *)
(* runs it: the connection commits after each UPDATE/INSERT and a SELECT   *)
(* runs in autocommit mode, so other workers' statements interleave        *)
(* between the statements of one pop() or run().                           *)
(***************************************************************************)
EXTENDS Integers, Sequences, FiniteSets, TLC

VARIABLES
    tasks,      \* the table: Seq of [priority, task, status, owner]
    fs,         \* the filesystem: the set of paths that exist (regular files)
    put_log,    \* history: the task object handed to each put(), by rowid
    pc,         \* per worker: the statement it is about to run
    call,       \* per worker: the public method in progress ("none" when idle)
    oid,        \* per worker: pop()'s local `oid` (a decimal string)
    op,         \* per worker: run()'s local `op` (the task pop() returned)
    result      \* per worker: what its last finished call returned or raised

vars == <<tasks, fs, put_log, pc, call, oid, op, result>>

\* ---------------------------------------------------------------- bounds

\* the most rows each specification enqueues
MaxRows == 3
MaxClaimRows == 3
MaxSeqRows == 3
MaxRunRows == 2
\* the drain specification's rows reach row identities of two decimal digits
MaxDrainRows == 10

\* worker identities: id(self) of each worker's TaskQueue object
Workers == {1, 2}

\* ------------------------------------------------------------ SQL values

NULL == <<>>
SqlInt(n) == <<n>>

\* ORDER BY priority, ascending: NULL sorts before every integer
PrioLess(a, b) ==
    IF b = NULL THEN FALSE
    ELSE IF a = NULL THEN TRUE
    ELSE a[1] < b[1]

\* int.__str__(): the decimal digits of a positive row identity
RECURSIVE Str(_)
Str(n) == IF n < 10 THEN <<n>> ELSE Str(n \div 10) \o <<n % 10>>

\* __str__() of a priority column value: "None" or the integer's digits
PyStr(v) == IF v = NULL THEN <<"N", "o", "n", "e">> ELSE Str(v[1])

\* sqlite's INTEGER affinity on a bound text of digits compared with _ROWID_
RECURSIVE ToRowid(_)
ToRowid(s) ==
    IF s = <<>> THEN 0
    ELSE 10 * ToRowid(SubSeq(s, 1, Len(s) - 1)) + s[Len(s)]

\* json.dumps of a flat dict: the list of its key/value pairs
KeyOrder == <<"type", "msg", "validate", "src", "dst", "oid">>
JsonDumps(d) ==
    LET keys == SelectSeq(KeyOrder, LAMBDA k : k \in DOMAIN d)
    IN  [i \in 1..Len(keys) |-> <<keys[i], d[keys[i]]>>]

\* json.loads: the dict of a list of key/value pairs
JsonLoads(doc) ==
    [k \in {doc[i][1] : i \in 1..Len(doc)} |->
        doc[CHOOSE i \in 1..Len(doc) : doc[i][1] = k][2]]

\* ------------------------------------------------------------ task model

\* a task object: its class and its __dict__
Obj(c, d) == [cls |-> c, dict |-> d]
NoTask == Obj("None", <<>>)

\* Task(): type 0
NewTask == Obj("Task", [type |-> 0])

\* KillTask(): sets type -1, then Task.__init__ overwrites it with 0
NewKillTask == Obj("KillTask", [type |-> 0])

\* EchoTask(msg)
NewEchoTask(msg) == Obj("EchoTask", [type |-> 1, msg |-> msg])

\* FileTask.__validate__: the exception it raises, or "ok"
FileValidate(d, files) ==
    IF d.src \notin files THEN "FileNotFoundError" ELSE "ok"

\* CopyTask.__validate__ without its check of the destination
CopyValidate_NoDstCheck(d, files) == FileValidate(d, files)

\* CopyTask.__validate__: FileTask's check, then the destination must not exist
CopyValidate(d, files) ==
    IF FileValidate(d, files) # "ok" THEN FileValidate(d, files)
    ELSE IF d.dst \in files THEN "FileExistsError"
    ELSE "ok"

\* a constructor's outcome: the object, or the exception validation raised
Built(c, d, check) ==
    IF d.validate /\ check # "ok" THEN [err |-> check, task |-> NoTask]
    ELSE [err |-> "ok", task |-> Obj(c, d)]

NewFileTask(src, validate, files) ==
    LET d == [type |-> 2, validate |-> validate, src |-> src]
    IN  Built("FileTask", d, FileValidate(d, files))

NewDeleteTask(src, validate, files) ==
    LET d == [type |-> 3, validate |-> validate, src |-> src]
    IN  Built("DeleteTask", d, FileValidate(d, files))

NewCopyTask(src, dst, validate, files) ==
    LET d == [type |-> 4, validate |-> validate, src |-> src, dst |-> dst]
    IN  Built("CopyTask", d, CopyValidate(d, files))

NewMoveTask(src, dst, validate, files) ==
    LET d == [type |-> 5, validate |-> validate, src |-> src, dst |-> dst]
    IN  Built("MoveTask", d, CopyValidate(d, files))

\* Task.from_dict(x, validate): dispatch on x["type"]
FromDict(x, validate, files) ==
    CASE x.type = -1 -> [err |-> "ok", task |-> NewKillTask]
      [] x.type = 0  -> [err |-> "ok", task |-> NewTask]
      [] x.type = 1  -> [err |-> "ok", task |-> NewEchoTask(x.msg)]
      [] x.type = 2  -> NewFileTask(x.src, validate, files)
      [] x.type = 3  -> NewDeleteTask(x.src, validate, files)
      [] x.type = 4  -> NewCopyTask(x.src, x.dst, validate, files)
      [] x.type = 5  -> NewMoveTask(x.src, x.dst, validate, files)
      [] x.type = 6  -> [err |-> "NotImplementedError", task |-> NoTask]
      [] OTHER       -> [err |-> "ValueError", task |-> NoTask]

\* `task.oid = oid`: the attribute lands in the object's __dict__
WithOid(t, o) == Obj(t.cls, [oid |-> o] @@ t.dict)

\* op.run(): the exception it raises ("ok" when it returns)
TaskRun(t, files) ==
    CASE t.cls = "EchoTask"   -> "ok"
      [] t.cls = "DeleteTask" ->
            IF t.dict.src \in files THEN "ok" ELSE "FileNotFoundError"
      [] t.cls = "CopyTask"   -> CopyValidate(t.dict, files)
      [] t.cls = "MoveTask"   -> CopyValidate(t.dict, files)
      [] OTHER                -> "AttributeError"

\* op.run(): the filesystem it leaves
TaskRunFs(t, files) ==
    IF TaskRun(t, files) # "ok" THEN files
    ELSE CASE t.cls = "DeleteTask" -> files \ {t.dict.src}
           [] t.cls = "CopyTask"   -> files \cup {t.dict.dst}
           [] t.cls = "MoveTask"   -> (files \ {t.dict.src}) \cup {t.dict.dst}
           [] OTHER                -> files

\* ------------------------------------------------------------ the table

Rowids(t) == 1..Len(t)

\* n_ops: SELECT COUNT(1) from tasks
n_ops(t) == Len(t)

\* INSERT INTO tasks (priority, task, status) VALUES (?, ?, 0): owner stays NULL
Insert(t, task, priority) ==
    Append(t, [priority |-> priority, task |-> JsonDumps(task.dict),
               status |-> 0, owner |-> NULL])

\* SelectPending without its ORDER BY: the first pending row of the scan
SelectPending_NoOrderBy(t) ==
    LET pending == {i \in Rowids(t) : t[i].status = 0}
    IN  IF pending = {} THEN <<>>
        ELSE <<CHOOSE i \in pending : \A j \in pending : i <= j>>

\* SelectPending with ties of priority resolved towards the latest row
SelectPending_LastOfTies(t) ==
    LET pending == {i \in Rowids(t) : t[i].status = 0}
    IN  IF pending = {} THEN <<>>
        ELSE <<CHOOSE i \in pending : \A j \in pending \ {i} :
                    \/ PrioLess(t[i].priority, t[j].priority)
                    \/ (~PrioLess(t[j].priority, t[i].priority) /\ i > j)>>

\* SelectPending without its WHERE status = 0 (the query peek() runs)
SelectPending_AnyStatus(t) ==
    IF Rowids(t) = {} THEN <<>>
    ELSE <<CHOOSE i \in Rowids(t) : \A j \in Rowids(t) \ {i} :
                \/ PrioLess(t[i].priority, t[j].priority)
                \/ (~PrioLess(t[j].priority, t[i].priority) /\ i < j)>>

\* SELECT _ROWID_ from tasks WHERE status = 0 ORDER BY priority LIMIT 1.
\* sqlite scans the table in rowid order and keeps the top row in an index
\* keyed on (priority, scan sequence), so rows of equal priority come out in
\* rowid order.  The result set: <<>> or <<rowid>>.
SelectPending(t) ==
    LET pending == {i \in Rowids(t) : t[i].status = 0}
    IN  IF pending = {} THEN <<>>
        ELSE <<CHOOSE i \in pending : \A j \in pending \ {i} :
                    \/ PrioLess(t[i].priority, t[j].priority)
                    \/ (~PrioLess(t[j].priority, t[i].priority) /\ i < j)>>

\* SELECT * from tasks ORDER BY priority LIMIT 1 (peek): no WHERE clause, so
\* the first row of any status in priority order; ties as in SelectPending
SelectFirst(t) ==
    IF Rowids(t) = {} THEN <<>>
    ELSE <<CHOOSE i \in Rowids(t) : \A j \in Rowids(t) \ {i} :
                \/ PrioLess(t[i].priority, t[j].priority)
                \/ (~PrioLess(t[j].priority, t[i].priority) /\ i < j)>>

\* UPDATE tasks SET status = s, owner = o where _ROWID_ = r
Update(t, r, s, o) ==
    [i \in Rowids(t) |-> IF i = r THEN [t[i] EXCEPT !.status = s, !.owner = o]
                         ELSE t[i]]

\* mark_pending and mark_done with `owner = NULL` left out of the UPDATE
mark_pending_KeepsOwner(t, r) ==
    IF r \in Rowids(t) THEN Update(t, r, 0, t[r].owner) ELSE t
mark_done_KeepsOwner(t, r) ==
    IF r \in Rowids(t) THEN Update(t, r, 2, t[r].owner) ELSE t

\* mark_failed as a queue that drops what it gives up: DELETE ... WHERE ROWID = r
mark_failed_Deletes(t, r) ==
    IF r \in Rowids(t)
    THEN [i \in 1..(Len(t) - 1) |-> IF i < r THEN t[i] ELSE t[i + 1]]
    ELSE t

mark_pending(t, r) == Update(t, r, 0, NULL)
mark_running(t, r, owner) == Update(t, r, 1, SqlInt(owner))
mark_done(t, r) == Update(t, r, 2, NULL)
mark_failed(t, r) == Update(t, r, -1, NULL)

\* ------------------------------------------------------------ the workers

Ret(r, t) == [ret |-> r, task |-> t]

Init ==
    /\ tasks = <<>>
    /\ fs = {"a"}
    /\ put_log = <<>>
    /\ pc = [w \in Workers |-> "idle"]
    /\ call = [w \in Workers |-> "none"]
    /\ oid = [w \in Workers |-> <<>>]
    /\ op = [w \in Workers |-> NoTask]
    /\ result = [w \in Workers |-> Ret("none", NoTask)]

\* a call of worker w ends: it returns or raises r
Finish(w, r, t) ==
    /\ pc' = [pc EXCEPT ![w] = "idle"]
    /\ call' = [call EXCEPT ![w] = "none"]
    /\ oid' = [oid EXCEPT ![w] = <<>>]
    /\ op' = [op EXCEPT ![w] = NoTask]
    /\ result' = [result EXCEPT ![w] = Ret(r, t)]

\* put(task, priority): one INSERT, committed; any client may call it
Put(task, priority, max) ==
    /\ Len(tasks) < max
    /\ tasks' = Insert(tasks, task, priority)
    /\ put_log' = Append(put_log, task)
    /\ UNCHANGED <<fs, pc, call, oid, op, result>>

\* pop() is called
PopCall(w) ==
    /\ pc[w] = "idle"
    /\ pc' = [pc EXCEPT ![w] = "pop_select"]
    /\ call' = [call EXCEPT ![w] = "pop"]
    /\ UNCHANGED <<tasks, fs, put_log, oid, op, result>>

\* pop(), the SELECT of the next pending row: fetchall()[0] raises IndexError
\* on an empty result set
PopSelect(w) ==
    /\ pc[w] = "pop_select"
    /\ IF SelectPending(tasks) = <<>>
       THEN Finish(w, "IndexError", NoTask)
       ELSE /\ oid' = [oid EXCEPT ![w] = Str(SelectPending(tasks)[1])]
            /\ pc' = [pc EXCEPT ![w] = "pop_mark"]
            /\ UNCHANGED <<call, op, result>>
    /\ UNCHANGED <<tasks, fs, put_log>>

\* pop(), self.mark_running(oid, id(self))
PopMark(w) ==
    /\ pc[w] = "pop_mark"
    /\ tasks' = mark_running(tasks, ToRowid(oid[w]), w)
    /\ pc' = [pc EXCEPT ![w] = "pop_check"]
    /\ UNCHANGED <<fs, put_log, call, oid, op, result>>

\* PopOutcome without the comparison of the owner read back with id(self)
PopOutcome_NoOwnerCheck(t, o, w, files) ==
    IF Len(o) # 1 THEN Ret("ProgrammingError", NoTask)
    ELSE LET r == ToRowid(<<o[1]>>)
             made == FromDict(JsonLoads(t[r].task), FALSE, files)
         IN  IF made.err # "ok" THEN Ret(made.err, NoTask)
             ELSE Ret("task", WithOid(made.task, o))

\* what pop() returns or raises after mark_running.  The string oid is handed
\* to execute() as the parameter sequence, so it binds one parameter per
\* character: sqlite3 raises ProgrammingError unless it has exactly one.
PopOutcome(t, o, w, files) ==
    IF Len(o) # 1 THEN Ret("ProgrammingError", NoTask)
    ELSE LET r == ToRowid(<<o[1]>>)
             made == FromDict(JsonLoads(t[r].task), FALSE, files)
         IN  IF t[r].owner # SqlInt(w)
             THEN Ret("AlreadyUnderEvaluationError", NoTask)
             ELSE IF made.err # "ok" THEN Ret(made.err, NoTask)
             ELSE Ret("task", WithOid(made.task, o))

\* pop(), the read-back of owner and task, the ownership check and the return
PopCheck(w) ==
    /\ pc[w] = "pop_check"
    /\ LET out == PopOutcome(tasks, oid[w], w, fs)
       IN  IF call[w] = "run" /\ out.ret = "task"
           THEN /\ op' = [op EXCEPT ![w] = out.task]
                /\ pc' = [pc EXCEPT ![w] = "run_exec"]
                /\ oid' = [oid EXCEPT ![w] = <<>>]
                /\ UNCHANGED <<call, result>>
           ELSE Finish(w, out.ret, out.task)
    /\ UNCHANGED <<tasks, fs, put_log>>

\* what peek() returns or raises.  `SELECT *` yields the columns (priority,
\* task, status, owner) without the rowid, so record[0], which peek() takes
\* for the oid, is the priority and record[1] is the task document.
PeekOutcome(t, files) ==
    IF SelectFirst(t) = <<>> THEN Ret("IndexError", NoTask)
    ELSE LET row == t[SelectFirst(t)[1]]
             made == FromDict(JsonLoads(row.task), FALSE, files)
         IN  IF made.err # "ok" THEN Ret(made.err, NoTask)
             ELSE Ret("peeked", WithOid(made.task, PyStr(row.priority)))

\* peek() as its docstring has it: the row is set "in progress" as well
Peek_Marking(w) ==
    /\ pc[w] = "idle"
    /\ tasks' = IF SelectFirst(tasks) = <<>> THEN tasks
                ELSE mark_running(tasks, SelectFirst(tasks)[1], w)
    /\ Finish(w, PeekOutcome(tasks, fs).ret, PeekOutcome(tasks, fs).task)
    /\ UNCHANGED <<fs, put_log>>

\* peek(n=1): one SELECT and the construction of the task
Peek(w) ==
    /\ pc[w] = "idle"
    /\ Finish(w, PeekOutcome(tasks, fs).ret, PeekOutcome(tasks, fs).task)
    /\ UNCHANGED <<tasks, fs, put_log>>

\* the public mark_pending / mark_running / mark_done / mark_failed: one
\* UPDATE each, committed; any client may call them at any time
MarkPending(r) ==
    /\ tasks' = mark_pending(tasks, r)
    /\ UNCHANGED <<fs, put_log, pc, call, oid, op, result>>

MarkRunning(r, owner) ==
    /\ tasks' = mark_running(tasks, r, owner)
    /\ UNCHANGED <<fs, put_log, pc, call, oid, op, result>>

MarkDone(r) ==
    /\ tasks' = mark_done(tasks, r)
    /\ UNCHANGED <<fs, put_log, pc, call, oid, op, result>>

MarkFailed(r) ==
    /\ tasks' = mark_failed(tasks, r)
    /\ UNCHANGED <<fs, put_log, pc, call, oid, op, result>>

\* run(n), its guard: n_ops < 1 raises ValueError, else pop() is entered
RunCall(w) ==
    /\ pc[w] = "idle"
    /\ IF n_ops(tasks) < 1
       THEN Finish(w, "ValueError", NoTask)
       ELSE /\ pc' = [pc EXCEPT ![w] = "pop_select"]
            /\ call' = [call EXCEPT ![w] = "run"]
            /\ UNCHANGED <<oid, op, result>>
    /\ UNCHANGED <<tasks, fs, put_log>>

\* run(n), op.run(): an exception leaves run() at once
RunExec(w) ==
    /\ pc[w] = "run_exec"
    /\ fs' = TaskRunFs(op[w], fs)
    /\ IF TaskRun(op[w], fs) = "ok"
       THEN /\ pc' = [pc EXCEPT ![w] = "run_done"]
            /\ UNCHANGED <<call, oid, op, result>>
       ELSE Finish(w, TaskRun(op[w], fs), NoTask)
    /\ UNCHANGED <<tasks, put_log>>

\* run(n), self.mark_done(op.oid)
RunDone(w) ==
    /\ pc[w] = "run_done"
    /\ tasks' = mark_done(tasks, ToRowid(op[w].dict.oid))
    /\ Finish(w, "ok", NoTask)
    /\ UNCHANGED <<fs, put_log>>

\* ------------------------------------------------------- specifications

\* The whole interface: worker 1 pop()s and run()s echo tasks that clients
\* put() at the default priority (None), while other clients and workers call
\* any mark_* on any row between any two of its statements (another worker's
\* pop() writes the table only through mark_running).
Next ==
    \/ Put(NewEchoTask("hi"), NULL, MaxRows)
    \/ PopCall(1)
    \/ RunCall(1)
    \/ PopSelect(1)
    \/ PopMark(1)
    \/ PopCheck(1)
    \/ RunExec(1)
    \/ RunDone(1)
    \/ \E r \in 1..MaxRows : MarkPending(r)
    \/ \E r \in 1..MaxRows, w \in Workers : MarkRunning(r, w)
    \/ \E r \in 1..MaxRows : MarkDone(r)
    \/ \E r \in 1..MaxRows : MarkFailed(r)

Spec == Init /\ [][Next]_vars

\* Two workers that only pop(), on a store clients only put() into.
NextClaim ==
    \/ Put(NewEchoTask("hi"), NULL, MaxClaimRows)
    \/ \E w \in Workers : PopCall(w)
    \/ \E w \in Workers : PopSelect(w)
    \/ \E w \in Workers : PopMark(w)
    \/ \E w \in Workers : PopCheck(w)

SpecClaim == Init /\ [][NextClaim]_vars

\* One sequential client (as in the tests): it puts at any priority, peeks,
\* pops, runs and marks, one call after the other.
SeqPriorities == {NULL, SqlInt(1), SqlInt(2), SqlInt(3)}

NextSeq ==
    \/ pc[1] = "idle" /\ \E p \in SeqPriorities : Put(NewEchoTask("hi"), p, MaxSeqRows)
    \/ Peek(1)
    \/ PopCall(1)
    \/ RunCall(1)
    \/ PopSelect(1)
    \/ PopMark(1)
    \/ PopCheck(1)
    \/ RunExec(1)
    \/ RunDone(1)
    \/ pc[1] = "idle" /\ \E r \in 1..MaxSeqRows : MarkPending(r)
    \/ pc[1] = "idle" /\ \E r \in 1..MaxSeqRows : MarkDone(r)

SpecSeq == Init /\ [][NextSeq]_vars

\* The runner: one worker run()s tasks of every runnable kind on a small
\* filesystem.  A task built with validate=True exists only if its validation
\* passed when it was built.
Paths == {"a", "b"}

RunTasks(files) ==
    {NewTask, NewKillTask, NewEchoTask("hi")}
    \cup {b.task : b \in {x \in {NewDeleteTask("a", v, files) : v \in BOOLEAN} : x.err = "ok"}}
    \cup {b.task : b \in {x \in {NewCopyTask("a", "b", v, files) : v \in BOOLEAN} : x.err = "ok"}}
    \cup {b.task : b \in {x \in {NewMoveTask("a", "b", v, files) : v \in BOOLEAN} : x.err = "ok"}}

InitRun ==
    /\ tasks = <<>>
    /\ fs \in SUBSET Paths
    /\ put_log = <<>>
    /\ pc = [w \in Workers |-> "idle"]
    /\ call = [w \in Workers |-> "none"]
    /\ oid = [w \in Workers |-> <<>>]
    /\ op = [w \in Workers |-> NoTask]
    /\ result = [w \in Workers |-> Ret("none", NoTask)]

NextRun ==
    \/ \E t \in RunTasks(fs) : Put(t, NULL, MaxRunRows)
    \/ RunCall(1)
    \/ PopSelect(1)
    \/ PopMark(1)
    \/ PopCheck(1)
    \/ RunExec(1)
    \/ RunDone(1)

SpecRun == InitRun /\ [][NextRun]_vars

\* The runner under a worker that keeps calling run() and is always given the
\* time to take the next step of the call it is in; put() is under no
\* fairness and stops when the store holds MaxRunRows records.
RunSteps ==
    \/ RunCall(1)
    \/ PopSelect(1)
    \/ PopMark(1)
    \/ PopCheck(1)
    \/ RunExec(1)
    \/ RunDone(1)

SpecRunFair == InitRun /\ [][NextRun]_vars /\ WF_vars(RunSteps)

\* Draining: one worker run()s echo tasks, which always succeed, on a store
\* that grows until its row identities have two decimal digits.
NextDrain ==
    \/ Put(NewEchoTask("hi"), NULL, MaxDrainRows)
    \/ RunCall(1)
    \/ PopSelect(1)
    \/ PopMark(1)
    \/ PopCheck(1)
    \/ RunExec(1)
    \/ RunDone(1)

SpecDrain == Init /\ [][NextDrain]_vars

\* ---------------------------------------------------------------- claims

\* the rows with status Pending (0)
PendingRows(t) == {i \in Rowids(t) : t[i].status = 0}

\* this step is worker w's pop() returning a task (to its caller or to run())
PopReturns(w) ==
    /\ pc[w] = "pop_check"
    /\ \/ pc'[w] = "idle" /\ result'[w].ret = "task"
       \/ pc'[w] = "run_exec"

\* the task that step returns
Returned(w) == IF pc'[w] = "run_exec" THEN op'[w] ELSE result'[w].task

\* the row of the task worker w's last call returned
ResultRow(w) == ToRowid(result[w].task.dict.oid)

\* C1: two workers' pop() calls never both return a task for the same record.
C1_NoRecordClaimedTwice ==
    \A w1 \in Workers, w2 \in Workers :
        (w1 # w2 /\ result[w1].ret = "task" /\ result[w2].ret = "task")
            => result[w1].task.dict.oid # result[w2].task.dict.oid

\* C2: when the records Pending at a pop() have pairwise distinct integer
\* priorities, the record pop() returns has a strictly smaller priority than
\* every record it leaves Pending.
C2_PopReturnsSmallestPriority ==
    [][PopReturns(1) =>
        LET r == ToRowid(Returned(1).dict.oid)
            P == PendingRows(tasks') \cup {r}
        IN  (/\ \A i \in P : tasks'[i].priority # NULL
             /\ \A i \in P, j \in P : i # j => tasks'[i].priority # tasks'[j].priority)
            => \A j \in P \ {r} : tasks'[r].priority[1] < tasks'[j].priority[1]]_vars

\* C2's case: pop() returned a record enqueued after one of larger priority
\* that it left Pending.
C2_Witness ==
    /\ pc[1] = "idle" /\ result[1].ret = "task"
    /\ \E j \in PendingRows(tasks) :
        /\ j < ResultRow(1)
        /\ tasks[j].priority # NULL /\ tasks[ResultRow(1)].priority # NULL
        /\ tasks[ResultRow(1)].priority[1] < tasks[j].priority[1]
    /\ \A i \in PendingRows(tasks), j \in PendingRows(tasks) :
        i # j => tasks[i].priority # tasks[j].priority

C4_PopOnNoPendingFails ==
    [][(pc[1] = "pop_select" /\ pc'[1] # "pop_select" /\ PendingRows(tasks) = {})
        => (pc'[1] = "idle" /\ result'[1].ret = "IndexError" /\ tasks' = tasks)]_vars

\* C4's case: pop() raised on a store that holds records, none of them Pending.
C4_Witness ==
    /\ pc[1] = "idle" /\ result[1].ret = "IndexError"
    /\ tasks # <<>> /\ PendingRows(tasks) = {}
    /\ \E i \in Rowids(tasks), j \in Rowids(tasks) :
        tasks[i].status = 1 /\ tasks[j].status = 2

\* C5: when pop() returns a task, the record it selected is Running and owned
\* by the caller, the task's oid is that record's row identity, and pop()'s
\* only write was to that record.
C5_PopClaimsSelectedRecord ==
    [][/\ PopReturns(1) =>
            LET r == ToRowid(Returned(1).dict.oid)
            IN  /\ r \in Rowids(tasks') /\ r = ToRowid(oid[1])
                /\ tasks'[r].status = 1 /\ tasks'[r].owner = SqlInt(1)
                /\ tasks' = tasks
       /\ (pc[1] = "pop_mark" /\ pc'[1] = "pop_check") =>
            /\ Len(tasks') = Len(tasks)
            /\ \A j \in Rowids(tasks) \ {ToRowid(oid[1])} : tasks'[j] = tasks[j]
       /\ (pc[1] = "pop_select" /\ pc'[1] # "pop_select") => tasks' = tasks]_vars

\* C5's case: pop() returned a record, now Running and owned by worker 1, and
\* another record is still Pending.
C5_Witness ==
    /\ pc[1] = "idle" /\ result[1].ret = "task"
    /\ tasks[ResultRow(1)].status = 1 /\ tasks[ResultRow(1)].owner = SqlInt(1)
    /\ \E j \in PendingRows(tasks) : j < ResultRow(1)

\* C6: mark_done, mark_failed and mark_pending set status Done (2), Failed (-1)
\* and Pending (0) and clear the owner; mark_running sets Running (1) and the
\* owner; a row gets a new owner only by a mark_running write, and put()
\* inserts a row without owner.
C6_MarkTransitions ==
    [][/\ \A r \in Rowids(tasks) :
            /\ MarkDone(r) => (tasks'[r].status = 2 /\ tasks'[r].owner = NULL)
            /\ MarkFailed(r) => (tasks'[r].status = -1 /\ tasks'[r].owner = NULL)
            /\ MarkPending(r) => (tasks'[r].status = 0 /\ tasks'[r].owner = NULL)
            /\ \A w \in Workers :
                MarkRunning(r, w) => (tasks'[r].status = 1 /\ tasks'[r].owner = SqlInt(w))
            /\ (tasks'[r].owner # NULL /\ tasks'[r].owner # tasks[r].owner)
                => \E w \in Workers : tasks' = mark_running(tasks, r, w)
       /\ \A r \in Rowids(tasks') \ Rowids(tasks) : tasks'[r].owner = NULL]_vars

\* C6's case: a record worker 1 had claimed is Done and has no owner, and
\* another is Failed and has none.
C6_Witness ==
    /\ result[1].ret = "task"
    /\ tasks[ResultRow(1)].status = 2 /\ tasks[ResultRow(1)].owner = NULL
    /\ \E j \in Rowids(tasks) : tasks[j].status = -1 /\ tasks[j].owner = NULL

\* C7: every record's status is Pending, Running, Done or Failed, and it has
\* an owner if and only if it is Running.
C7_OwnerIffRunning ==
    \A r \in Rowids(tasks) :
        /\ tasks[r].status \in {0, 1, 2, -1}
        /\ (tasks[r].owner # NULL) <=> (tasks[r].status = 1)

\* C7's case: a store with a Running record owned by worker 2, a Failed one
\* and one worker 1 holds while in run().
C7_Witness ==
    /\ \E i \in Rowids(tasks) : tasks[i].status = 1 /\ tasks[i].owner = SqlInt(2)
    /\ \E j \in Rowids(tasks) : tasks[j].status = -1
    /\ pc[1] = "run_done"

\* C8: when the task run() claimed fails in its run(), run() raises and the
\* claimed record is Failed with no owner.
C8_FailedRunMarksFailed ==
    [][(pc[1] = "run_exec" /\ pc'[1] = "idle") =>
        LET r == ToRowid(op[1].dict.oid)
        IN  /\ result'[1].ret # "ok"
            /\ tasks'[r].status = -1 /\ tasks'[r].owner = NULL]_vars

\* C9: once run() has been called until no record is Pending, on a store of
\* tasks whose execution succeeds, every record is Done.
C9_DrainedQueueAllDone ==
    (pc[1] = "idle" /\ PendingRows(tasks) = {})
        => \A r \in Rowids(tasks) : tasks[r].status = 2

\* C10: a run() that claimed a Kill task ends without error, with the Kill
\* record Done and without owner, and the filesystem untouched.
C10_KillMarkedDone ==
    [][\A r \in Rowids(tasks) :
        (/\ pc[1] \in {"run_exec", "run_done"} /\ pc'[1] = "idle"
         /\ r = ToRowid(op[1].dict.oid) /\ put_log[r].cls = "KillTask")
        => (/\ result'[1].ret = "ok" /\ fs' = fs
            /\ tasks'[r].status = 2 /\ tasks'[r].owner = NULL)]_vars

\* a task's __dict__ without its oid attribute
DropOid(d) == [k \in DOMAIN d \ {"oid"} |-> d[k]]

\* C11: the task pop() returns for a record is of the class of the task that
\* was put() and equal to it in every field but oid.
C11_RoundTripEqual ==
    [][PopReturns(1) =>
        LET r == ToRowid(Returned(1).dict.oid)
        IN  /\ Returned(1).cls = put_log[r].cls
            /\ DropOid(Returned(1).dict) = put_log[r].dict]_vars

\* what a pop() by worker w returns when no other call comes between its
\* statements
NextPop(t, w, files) ==
    LET o == Str(SelectPending(t)[1])
    IN  PopOutcome(mark_running(t, ToRowid(o), w), o, w, files)

\* C12: with a record Pending, peek() returns the task, oid included, that a
\* pop() called right after it returns.
C12_PeekAgreesWithPop ==
    [][(Peek(1) /\ PendingRows(tasks) # {}) =>
        /\ result'[1].ret = "peeked"
        /\ NextPop(tasks, 1, fs).ret = "task"
        /\ result'[1].task = NextPop(tasks, 1, fs).task]_vars

Transitions == {<<0, 1>>, <<1, 2>>, <<1, -1>>, <<1, 0>>}

\* C13: a record's status changes only along Pending to Running, Running to
\* Done, Running to Failed or Running to Pending; in particular the status of
\* a Done or Failed record never changes again.
C13_TerminalStatuses ==
    [][\A r \in Rowids(tasks) :
        tasks'[r].status # tasks[r].status
            => <<tasks[r].status, tasks'[r].status>> \in Transitions]_vars

\* this step is a put()
IsPut == Len(put_log') = Len(put_log) + 1

\* C14: no step removes a record; the number of records grows only by a
\* put(), and then by exactly one; every record keeps its row identity, its
\* priority and its task document through every step.
C14_AppendOnly ==
    [][/\ Len(tasks') >= Len(tasks)
       /\ IsPut => Len(tasks') = Len(tasks) + 1
       /\ ~IsPut => Len(tasks') = Len(tasks)
       /\ \A r \in Rowids(tasks) :
            /\ r \in Rowids(tasks')
            /\ tasks'[r].priority = tasks[r].priority
            /\ tasks'[r].task = tasks[r].task]_vars

\* C14's case: every record put is still there after a run() completed one
\* and another was marked Failed.
C14_Witness ==
    /\ Len(tasks) = Len(put_log) /\ Len(tasks) >= 3
    /\ pc[1] = "idle" /\ result[1].ret = "ok"
    /\ \E i \in Rowids(tasks), j \in Rowids(tasks) :
        tasks[i].status = 2 /\ tasks[j].status = -1

\* this step is the op.run() of a Copy or a Move that run() claimed
CopyRuns == RunExec(1) /\ op[1].cls \in {"CopyTask", "MoveTask"}

\* that op.run() raised FileExistsError and left the filesystem as it was
RaisedExists == pc'[1] = "idle" /\ result'[1].ret = "FileExistsError" /\ fs' = fs

C16_OnlyOwnerFinalizes ==
    [][\A r \in Rowids(tasks) :
        (/\ pc[1] = "run_done" /\ pc'[1] = "idle"
         /\ r = ToRowid(op[1].dict.oid)
         /\ tasks[r].status = 1 /\ tasks[r].owner # SqlInt(1))
        => (/\ result'[1].ret = "AlreadyUnderEvaluationError"
            /\ tasks'[r] = tasks[r])]_vars

\* C17: no pop() of any worker ever raises AlreadyUnderEvaluationError: the
\* owner a worker reads back after its mark_running is always itself.
C17_OwnerCheckUnreachable ==
    \A w \in Workers : result[w].ret # "AlreadyUnderEvaluationError"

\* C20: a pop() that finds a Pending record goes on to claim it, and a pop()
\* that has marked a record Running returns its task: it does not raise.
C20_PopReturnsWhatItClaims ==
    [][/\ (pc[1] = "pop_select" /\ pc'[1] # "pop_select" /\ PendingRows(tasks) # {})
            => pc'[1] = "pop_mark"
       /\ (pc[1] = "pop_check" /\ pc'[1] # "pop_check") => PopReturns(1)]_vars

\* C19: under a worker that keeps calling run(), every record put is
\* eventually Done or Failed, with no owner.
C19_EveryRecordFinalized ==
    \A r \in 1..MaxRunRows :
        (r \in Rowids(tasks))
            ~> (/\ r \in Rowids(tasks)
                /\ tasks[r].status \in {2, -1} /\ tasks[r].owner = NULL)

====
